---- MODULE Spec2Model ----
(***************************************************************************)
(* A model of polyglotdb.graph.query.GraphQuery: the fluent accumulator    *)
(* of filter criteria, columns, grouping, ordering, aggregates and         *)
(* mutation intent, its compilation entry points (cypher, cypher_params,   *)
(* annotation_levels) and its terminal operations.                         *)
(*                                                                         *)
(* Annotation objects are shared mutable objects: an Attribute refers to   *)
(* its annotation by identity, and cypher() rewrites the discourse_label   *)
(* of annotation objects in place.  The model therefore keeps a heap of    *)
(* annotation objects and lets criteria and columns refer to them by name. *)
(***************************************************************************)
EXTENDS Integers, Sequences, FiniteSets, TLC

\* ------------------------------------------------------------------ bounds
\* Length of the call chain made on one accumulator.
MaxCalls == 3
\* Largest number of rows (or groups) the store answers with.
MaxRows == 1

\* ------------------------------------------------------- annotation objects
\* The absent discourse label (Python None).
None == "None"

\* Discourse names a criterion may assert.
DiscourseValues == {"d1", "d2"}

\* The annotation objects of the model: the searched-for annotation, a second
\* object of the same type obtained separately from the corpus, and an
\* annotation of another type.
Anns == {"tf", "p2", "wd"}

\* self.to_find
to_find == "tf"

\* The annotation type with no qualifiers that the corpus hands out for a
\* type name (getattr(self.corpus, a.type)).
CorpusAnnotation(type) ==
    [type |-> type, discourse_label |-> None,
     subset_type_labels |-> {}, subset_token_labels |-> {}]

\* key.subset_type(*labels) and key.subset_token(*labels)
subset_type(key, labels) ==
    [key EXCEPT !.subset_type_labels = key.subset_type_labels \cup labels]

subset_token(key, labels) ==
    [key EXCEPT !.subset_token_labels = key.subset_token_labels \cup labels]

\* The heaps a caller can hand to the constructor: to_find is the plain type or
\* the type restricted to a type subset; no discourse label is set yet.
InitialHeaps ==
    { [a \in Anns |->
         IF a = "tf" THEN subset_type(CorpusAnnotation("phone"), s)
         ELSE IF a = "p2" THEN CorpusAnnotation("phone")
         ELSE CorpusAnnotation("word")] : s \in {{}, {"sibilant"}} }

\* Two annotation types are the same level iff type, discourse label and both
\* subset-qualifier sets are equal: the level of an object is that tuple.
LevelOf(h, a) == h[a]

\* --------------------------------------------------------------- attributes
\* annotation.<label>.column_name(output)
Attribute(a, label, output) == [annotation |-> a, label |-> label, output |-> output]

\* Value equality of two attribute paths: same level, property and alias.
AttributeEq(h, x, y) ==
    /\ LevelOf(h, x.annotation) = LevelOf(h, y.annotation)
    /\ x.label = y.label
    /\ x.output = y.output

\* x in column_set
InColumns(h, x, cols) == \E i \in 1..Len(cols) : AttributeEq(h, x, cols[i])

\* The default columns of __init__.
DefaultColumns ==
    << Attribute(to_find, "id", "id"), Attribute(to_find, "label", "label") >>

\* ---------------------------------------------------------- clause elements
NoAnn == "none"

\* attribute <op> value
Comparison(attr, value) ==
    [kind |-> "cmp", annotation |-> attr.annotation, label |-> attr.label,
     value |-> value, second |-> NoAnn]

ContainsClauseElement(attr, value) ==
    [kind |-> "contains", annotation |-> attr.annotation, label |-> attr.label,
     value |-> value, second |-> NoAnn]

AlignmentClauseElement(kind, first, second) ==
    [kind |-> kind, annotation |-> first, label |-> "", value |-> "", second |-> second]

LeftAlignedClauseElement(first, second) == AlignmentClauseElement("left", first, second)

RightAlignedClauseElement(first, second) == AlignmentClauseElement("right", first, second)

NotLeftAlignedClauseElement(first, second) == AlignmentClauseElement("notleft", first, second)

NotRightAlignedClauseElement(first, second) == AlignmentClauseElement("notright", first, second)

AlignmentKinds == {"left", "right", "notleft", "notright"}

\* Whether c.attribute exists: alignment elements have none (AttributeError).
HasAttribute(c) == c.kind \in {"cmp", "contains"}

\* c.annotations
Annotations(c) ==
    IF HasAttribute(c) THEN {c.annotation} ELSE {c.annotation, c.second}

\* The criteria a caller passes to filter().
FilterArgs ==
    { Comparison(Attribute(to_find, "discourse", ""), d) : d \in DiscourseValues }
    \cup { Comparison(Attribute("p2", "label", ""), "v"),
           ContainsClauseElement(Attribute("wd", "label", ""), "v") }

\* The annotation types a caller passes to the alignment filters.
AlignArgs == {"wd"}

Range(s) == { s[i] : i \in 1..Len(s) }

\* ------------------------------------------------ discourse-label rewriting
\* The inner loop of cypher(): for c2 in self._criterion, from position j, set
\* c2.attribute.annotation.discourse_label = v.  A criterion without an
\* attribute raises AttributeError, which ends the loop where it stands.
RECURSIVE InnerLoop(_, _, _, _)
InnerLoop(h, crit, j, v) ==
    IF j > Len(crit) THEN [heap |-> h, completed |-> TRUE]
    ELSE IF ~HasAttribute(crit[j]) THEN [heap |-> h, completed |-> FALSE]
    ELSE InnerLoop([h EXCEPT ![crit[j].annotation].discourse_label = v], crit, j + 1, v)

\* The outer loop of cypher(), from position i: the first criterion on the
\* discourse property whose inner loop completes ends the loop (break); an
\* AttributeError, raised by c itself or inside the inner loop, is swallowed
\* and the loop goes on with the next criterion.
RECURSIVE OuterLoop(_, _, _)
OuterLoop(h, crit, i) ==
    IF i > Len(crit) THEN h
    ELSE IF HasAttribute(crit[i]) /\ crit[i].label = "discourse"
         THEN LET r == InnerLoop(h, crit, 1, crit[i].value)
              IN  IF r.completed THEN r.heap ELSE OuterLoop(r.heap, crit, i + 1)
         ELSE OuterLoop(h, crit, i + 1)

\* The heap after the loop of cypher().
PropagateDiscourse(h, crit) == OuterLoop(h, crit, 1)

\* --------------------------------------------------------- annotation_levels
\* The key built for an annotation referenced by a criterion.
CriterionKey(h, a) ==
    subset_token(
        subset_type([CorpusAnnotation(h[a].type) EXCEPT !.discourse_label = h[a].discourse_label],
                    h[a].subset_type_labels),
        h[a].subset_token_labels)

\* The key built for the base annotation of a column or group-by field.
ColumnKey(h, t) ==
    subset_token(subset_type(CorpusAnnotation(h[t].type), h[t].subset_type_labels),
                 h[t].subset_token_labels)

\* The annotation objects the criteria refer to.
CriterionAnnotations(crit) == UNION { Annotations(crit[i]) : i \in 1..Len(crit) }

\* The base annotations of self._columns + self._group_by + self._additional_columns.
ColumnAnnotations(q) ==
    { x.annotation : x \in Range(q.columns \o q.group_by \o q.additional_columns) }

\* annotation_levels(): canonical annotation type -> the references resolving to it.
annotation_levels(q, h) ==
    LET ca == CriterionAnnotations(q.criterion)
        co == ColumnAnnotations(q)
        keys == { CriterionKey(h, a) : a \in ca } \cup { ColumnKey(h, t) : t \in co }
    IN  [k \in keys |-> { a \in ca : CriterionKey(h, a) = k }
                        \cup { t \in co : ColumnKey(h, t) = k }]

\* ------------------------------------------------------- statement compiler
\* The trailing clause of the statement: a mutation clause when a mutation is
\* pending, aggregate expressions when aggregate specs are present, else the
\* projection of the column list.
TrailingClause(q) ==
    LET kind == IF q.delete THEN "delete"
                ELSE IF q.set_type # {} \/ q.set_type_labels # <<>> THEN "set_type"
                ELSE IF q.set_token # {} \/ q.set_token_labels # <<>> THEN "set_token"
                ELSE IF q.aggregate # <<>> THEN "aggregate"
                ELSE "return"
    IN  [kind |-> kind,
         columns |-> IF kind = "return" THEN q.columns \o q.additional_columns ELSE <<>>,
         aggregate |-> IF kind = "aggregate" THEN q.aggregate ELSE <<>>,
         group_by |-> IF kind = "aggregate" THEN q.group_by ELSE <<>>,
         order_by |-> IF kind \in {"return", "aggregate"} THEN q.order_by ELSE <<>>,
         set_type |-> IF kind = "set_type" THEN q.set_type ELSE {},
         set_type_labels |-> IF kind = "set_type" THEN q.set_type_labels ELSE <<>>,
         set_token |-> IF kind = "set_token" THEN q.set_token ELSE {},
         set_token_labels |-> IF kind = "set_token" THEN q.set_token_labels ELSE <<>>]

\* query_to_cypher(query): one pattern node per key of annotation_levels(), one
\* constraint per criterion (its literal replaced by a named parameter) attached
\* to the levels of its annotations, and the trailing clause.
query_to_cypher(q, h) ==
    [nodes |-> DOMAIN annotation_levels(q, h),
     constraints |-> [i \in 1..Len(q.criterion) |->
                        [kind |-> q.criterion[i].kind,
                         label |-> q.criterion[i].label,
                         levels |-> { CriterionKey(h, a) : a \in Annotations(q.criterion[i]) },
                         param |-> IF HasAttribute(q.criterion[i]) THEN i ELSE 0]],
     clause |-> TrailingClause(q)]

\* query_to_params(query): the literal of every criterion that has one.
query_to_params(q) ==
    [i \in { j \in 1..Len(q.criterion) : HasAttribute(q.criterion[j]) } |-> q.criterion[i].value]

\* --------------------------------------------------------------- the store
\* Cells of a row: an integer, a group key or the absent value.
IntCell(n) == [tag |-> "int", n |-> n]

KeyCell == [tag |-> "key", n |-> 0]

NoneCell == [tag |-> "none", n |-> 0]

\* The row sets the store may answer a statement with: a scalar aggregate gives
\* exactly one row holding the value; a grouped aggregate gives one row per
\* group (none when nothing matches), the group key then the aggregate; a
\* projection gives the matching rows; a mutation gives an empty acknowledgement.
RowSets(text) ==
    LET c == text.clause
    IN  IF c.kind = "aggregate" /\ c.group_by = <<>>
        THEN { << << IntCell(n) >> >> : n \in 0..MaxRows }
        ELSE IF c.kind = "aggregate"
        THEN { [i \in 1..k |-> << KeyCell, IntCell(1) >>] : k \in 0..MaxRows }
        ELSE IF c.kind = "return"
        THEN { [i \in 1..k |-> << KeyCell >>] : k \in 0..MaxRows }
        ELSE { <<>> }

\* RowSet.one: the first value of the first record, None when there is none.
One(rows) == IF rows = <<>> THEN NoneCell ELSE rows[1][1]

\* ------------------------------------------------------------------- state
VARIABLES
    heap,                \* annotation object -> its fields (shared, mutable)
    criterion,           \* self._criterion
    columns,             \* self._columns
    additional_columns,  \* self._additional_columns
    order_by,            \* self._order_by: << field, descending >> pairs
    group_by,            \* self._group_by
    aggregate,           \* self._aggregate
    set_type,            \* self._set_type: a dict, as << key, value >> pairs
    set_type_labels,     \* self._set_type_labels
    set_token,           \* self._set_token
    set_token_labels,    \* self._set_token_labels
    delete,              \* self._delete
    stmt,                \* << the statement and parameters last compiled >>, << >> once the state changed
    prevStmt,            \* << the statement compiled by the cypher() call before the last one >>
    compiles,            \* consecutive cypher()/cypher_params() calls, counted up to 2
    lastOp,              \* the operation called last
    lastArgs,            \* the arguments passed to it (columns, order_by)
    ret,                 \* what it returned or raised
    nexec,               \* store execute calls it made
    raised,              \* whether the store raised during it
    ncompile,            \* statements it compiled
    ncalls,              \* calls made so far
    criterion2,          \* self._criterion of a second GraphQuery on the same corpus
    instance             \* the GraphQuery the last call was made on

accumulator == << criterion, columns, additional_columns, order_by, group_by, aggregate,
                  set_type, set_type_labels, set_token, set_token_labels, delete >>

history == << stmt, prevStmt, compiles, lastOp, lastArgs, ret, nexec, raised, ncompile, ncalls >>

second == << criterion2, instance >>

vars == << heap, accumulator, history, second >>

\* The accumulator as one value, as the compiler reads it.
Q ==
    [criterion |-> criterion, columns |-> columns,
     additional_columns |-> additional_columns, order_by |-> order_by,
     group_by |-> group_by, aggregate |-> aggregate,
     set_type |-> set_type, set_type_labels |-> set_type_labels,
     set_token |-> set_token, set_token_labels |-> set_token_labels,
     delete |-> delete]

\* Return values.
Self == [kind |-> "self", rows |-> <<>>, cell |-> NoneCell]

Nothing == [kind |-> "none", rows |-> <<>>, cell |-> NoneCell]

Text == [kind |-> "text", rows |-> <<>>, cell |-> NoneCell]

RowSet(rows) == [kind |-> "rowset", rows |-> rows, cell |-> NoneCell]

Value(rows) == [kind |-> "value", rows |-> rows, cell |-> One(rows)]

Raised(error) == [kind |-> error, rows |-> <<>>, cell |-> NoneCell]

\* GraphQuery.__init__
Init ==
    /\ heap \in InitialHeaps
    /\ criterion = <<>>
    /\ columns = DefaultColumns
    /\ additional_columns = <<>>
    /\ order_by = <<>>
    /\ group_by = <<>>
    /\ aggregate = <<>>
    /\ set_type = {}
    /\ set_type_labels = <<>>
    /\ set_token = {}
    /\ set_token_labels = <<>>
    /\ delete = FALSE
    /\ stmt = <<>>
    /\ prevStmt = <<>>
    /\ compiles = 0
    /\ lastOp = "__init__"
    /\ lastArgs = <<>>
    /\ ret = Nothing
    /\ nexec = 0
    /\ raised = FALSE
    /\ ncompile = 0
    /\ ncalls = 0
    /\ criterion2 = <<>>
    /\ instance = "none"

\* The call chain is followed up to MaxCalls calls.
CanCall == ncalls < MaxCalls

\* What every call records of itself.
Called(op, args, r, ne, nc) ==
    /\ lastOp' = op
    /\ lastArgs' = args
    /\ ret' = r
    /\ nexec' = ne
    /\ ncompile' = nc
    /\ ncalls' = ncalls + 1
    /\ criterion2' = criterion2
    /\ instance' = "first"

\* A builder operation: returns self, compiles and executes nothing; the
\* statement compiled before it no longer describes the state.
Built(op, args) ==
    /\ Called(op, args, Self, 0, 0)
    /\ raised' = FALSE
    /\ stmt' = <<>>
    /\ prevStmt' = <<>>
    /\ compiles' = 0
    /\ heap' = heap

\* ------------------------------------------------------- builder operations
ClearColumns ==
    /\ CanCall
    /\ columns' = <<>>
    /\ Built("clear_columns", <<>>)
    /\ UNCHANGED << criterion, additional_columns, order_by, group_by, aggregate,
                    set_type, set_type_labels, set_token, set_token_labels, delete >>

Filter ==
    /\ CanCall
    /\ \E c \in FilterArgs :
           /\ criterion' = criterion \o << c >>
           /\ Built("filter", <<>>)
           /\ UNCHANGED << columns, additional_columns, order_by, group_by, aggregate,
                           set_type, set_type_labels, set_token, set_token_labels, delete >>

\* columns() without the membership test: every argument is appended.
ColumnsResultNoDedup(h, cols, addl, args) == addl \o args

\* The additional columns after columns(*args): the arguments not in the
\* column set taken before the call are appended, in argument order.
ColumnsResult(h, cols, addl, args) ==
    LET NotSeen(x) == ~InColumns(h, x, addl \o cols)
    IN  addl \o SelectSeq(args, NotSeen)

\* The argument lists a caller passes to columns().
ColumnArgs ==
    { << Attribute(to_find, "label", "label") >>,
      << Attribute(to_find, "begin", "begin") >>,
      << Attribute("wd", "label", "word") >>,
      << Attribute("wd", "label", "word"), Attribute("wd", "label", "word") >> }

Columns ==
    /\ CanCall
    /\ \E args \in ColumnArgs :
           /\ additional_columns' = ColumnsResult(heap, columns, additional_columns, args)
           /\ Built("columns", args)
           /\ UNCHANGED << criterion, columns, order_by, group_by, aggregate,
                           set_type, set_type_labels, set_token, set_token_labels, delete >>

FilterLeftAligned ==
    /\ CanCall
    /\ \E t \in AlignArgs :
           /\ criterion' = Append(criterion, LeftAlignedClauseElement(to_find, t))
           /\ Built("filter_left_aligned", <<>>)
           /\ UNCHANGED << columns, additional_columns, order_by, group_by, aggregate,
                           set_type, set_type_labels, set_token, set_token_labels, delete >>

FilterRightAligned ==
    /\ CanCall
    /\ \E t \in AlignArgs :
           /\ criterion' = Append(criterion, RightAlignedClauseElement(to_find, t))
           /\ Built("filter_right_aligned", <<>>)
           /\ UNCHANGED << columns, additional_columns, order_by, group_by, aggregate,
                           set_type, set_type_labels, set_token, set_token_labels, delete >>

FilterNotLeftAligned ==
    /\ CanCall
    /\ \E t \in AlignArgs :
           /\ criterion' = Append(criterion, NotLeftAlignedClauseElement(to_find, t))
           /\ Built("filter_not_left_aligned", <<>>)
           /\ UNCHANGED << columns, additional_columns, order_by, group_by, aggregate,
                           set_type, set_type_labels, set_token, set_token_labels, delete >>

\* filter_not_right_aligned() folding its criterion into an alignment criterion
\* already held for the same pair of types.
FilterNotRightAlignedCollapsing ==
    /\ CanCall
    /\ \E t \in AlignArgs :
           /\ criterion' =
                  IF \E i \in 1..Len(criterion) :
                         /\ criterion[i].kind \in AlignmentKinds
                         /\ criterion[i].second = t
                  THEN criterion
                  ELSE Append(criterion, NotRightAlignedClauseElement(to_find, t))
           /\ Built("filter_not_right_aligned", <<>>)
           /\ UNCHANGED << columns, additional_columns, order_by, group_by, aggregate,
                           set_type, set_type_labels, set_token, set_token_labels, delete >>

FilterNotRightAligned ==
    /\ CanCall
    /\ \E t \in AlignArgs :
           /\ criterion' = Append(criterion, NotRightAlignedClauseElement(to_find, t))
           /\ Built("filter_not_right_aligned", <<>>)
           /\ UNCHANGED << columns, additional_columns, order_by, group_by, aggregate,
                           set_type, set_type_labels, set_token, set_token_labels, delete >>

\* The fields a caller groups by.
GroupByArgs == { << Attribute(to_find, "label", "label") >>, << Attribute("wd", "label", "word") >> }

GroupBy ==
    /\ CanCall
    /\ \E args \in GroupByArgs :
           /\ group_by' = group_by \o args
           /\ Built("group_by", <<>>)
           /\ UNCHANGED << criterion, columns, additional_columns, order_by, aggregate,
                           set_type, set_type_labels, set_token, set_token_labels, delete >>

\* The fields a caller orders by.
OrderByFields == { Attribute(to_find, "begin", "begin"), Attribute("wd", "label", "word") }

\* order_by() keeping one direction for the whole query: the flag of the call
\* replaces the flag of every pair.
OrderByQueryWide ==
    /\ CanCall
    /\ \E field \in OrderByFields, descending \in BOOLEAN :
           /\ order_by' = [i \in 1..(Len(order_by) + 1) |->
                              << IF i <= Len(order_by) THEN order_by[i][1] ELSE field,
                                 descending >>]
           /\ Built("order_by", << field, descending >>)
           /\ UNCHANGED << criterion, columns, additional_columns, group_by, aggregate,
                           set_type, set_type_labels, set_token, set_token_labels, delete >>

\* order_by(field, descending = False)
OrderBy ==
    /\ CanCall
    /\ \E field \in OrderByFields, descending \in BOOLEAN :
           /\ order_by' = Append(order_by, << field, descending >>)
           /\ Built("order_by", << field, descending >>)
           /\ UNCHANGED << criterion, columns, additional_columns, group_by, aggregate,
                           set_type, set_type_labels, set_token, set_token_labels, delete >>

\* discourses() without its return statement.
DiscoursesReturnsNone ==
    /\ CanCall
    /\ additional_columns' =
           ColumnsResult(heap, columns, additional_columns,
                         << Attribute(to_find, "discourse", "discourse") >>)
    /\ Called("discourses", <<>>, Nothing, 0, 0)
    /\ UNCHANGED << heap, criterion, columns, order_by, group_by, aggregate,
                    set_type, set_type_labels, set_token, set_token_labels, delete >>
    /\ stmt' = <<>> /\ prevStmt' = <<>> /\ compiles' = 0 /\ raised' = FALSE

\* discourses(output_name = None)
Discourses ==
    /\ CanCall
    /\ additional_columns' =
           ColumnsResult(heap, columns, additional_columns,
                         << Attribute(to_find, "discourse", "discourse") >>)
    /\ Built("discourses", <<>>)
    /\ UNCHANGED << criterion, columns, order_by, group_by, aggregate,
                    set_type, set_type_labels, set_token, set_token_labels, delete >>

\* times(begin_name = None, end_name = None): two columns() calls in a row.
Times ==
    /\ CanCall
    /\ additional_columns' =
           ColumnsResult(heap, columns,
               ColumnsResult(heap, columns, additional_columns,
                             << Attribute(to_find, "begin", "begin") >>),
               << Attribute(to_find, "end", "end") >>)
    /\ Built("times", <<>>)
    /\ UNCHANGED << criterion, columns, order_by, group_by, aggregate,
                    set_type, set_type_labels, set_token, set_token_labels, delete >>

Duration ==
    /\ CanCall
    /\ additional_columns' = Append(additional_columns, Attribute(to_find, "duration", "duration"))
    /\ Built("duration", <<>>)
    /\ UNCHANGED << criterion, columns, order_by, group_by, aggregate,
                    set_type, set_type_labels, set_token, set_token_labels, delete >>

\* -------------------------------------------------------------- compilation
\* cypher() compiling the statement before the loop has rewritten the labels.
cypherBeforeRewrite(q, h) ==
    [heap |-> PropagateDiscourse(h, q.criterion), text |-> query_to_cypher(q, h)]

\* cypher(): the loop rewrites the discourse labels in place, then the
\* statement is compiled from the rewritten objects.
cypher(q, h) ==
    LET rewritten == PropagateDiscourse(h, q.criterion)
    IN  [heap |-> rewritten, text |-> query_to_cypher(q, rewritten)]

\* cypher_params()
cypher_params(q) == query_to_params(q)

\* self.cypher(), **self.cypher_params(): what a terminal operation hands to
\* the store, and the heap the compilation leaves.
Compile(q, h) ==
    LET r == cypher(q, h)
    IN  [heap |-> r.heap, stmt |-> [text |-> r.text, params |-> cypher_params(q)]]

\* A caller compiling the statement and its parameters without executing.
Cypher ==
    /\ CanCall
    /\ \E c \in { Compile(Q, heap) } :
           /\ heap' = c.heap
           /\ prevStmt' = stmt
           /\ stmt' = << c.stmt >>
           /\ compiles' = IF compiles < 2 THEN compiles + 1 ELSE 2
           /\ Called("cypher", <<>>, Text, 0, 1)
           /\ raised' = FALSE
           /\ UNCHANGED accumulator

\* self.corpus.graph.cypher.execute(statement, **params): the store answers
\* with a row set or raises an ExecutionError.
Outcomes(st) ==
    { [ok |-> TRUE, rows |-> rs] : rs \in RowSets(st.text) }
    \cup { [ok |-> FALSE, rows |-> <<>>] }

\* A terminal operation that runs the statement a second time when the store
\* raised.
ExecutedWithRetry(op, c, o, r) ==
    /\ heap' = c.heap
    /\ stmt' = << c.stmt >>
    /\ prevStmt' = <<>>
    /\ compiles' = 0
    /\ raised' = ~o.ok
    /\ Called(op, <<>>, r, IF o.ok THEN 1 ELSE 2, 1)

\* What a terminal operation records: one compilation and one execute call,
\* with outcome o.
Executed(op, c, o, r) ==
    /\ heap' = c.heap
    /\ stmt' = << c.stmt >>
    /\ prevStmt' = <<>>
    /\ compiles' = 0
    /\ raised' = ~o.ok
    /\ Called(op, <<>>, r, 1, 1)

\* ------------------------------------------------------ terminal operations
All ==
    /\ CanCall
    /\ \E c \in { Compile(Q, heap) } :
           \E o \in Outcomes(c.stmt) :
               /\ Executed("all", c, o, IF o.ok THEN RowSet(o.rows) ELSE Raised("ExecutionError"))
               /\ UNCHANGED accumulator

\* to_csv(path): the rows go to save_results; nothing is returned.
ToCsv ==
    /\ CanCall
    /\ \E c \in { Compile(Q, heap) } :
           \E o \in Outcomes(c.stmt) :
               /\ Executed("to_csv", c, o, IF o.ok THEN Nothing ELSE Raised("ExecutionError"))
               /\ UNCHANGED accumulator

Count ==
    /\ CanCall
    /\ \E c \in { Compile([Q EXCEPT !.aggregate = << "Count" >>], heap) } :
           \E o \in Outcomes(c.stmt) :
               /\ aggregate' = IF o.ok THEN <<>> ELSE << "Count" >>
               /\ Executed("count", c, o, IF o.ok THEN Value(o.rows) ELSE Raised("ExecutionError"))
               /\ UNCHANGED << criterion, columns, additional_columns, order_by, group_by,
                               set_type, set_type_labels, set_token, set_token_labels, delete >>

\* The aggregate specs a caller passes to aggregate().
AggregateArgs == { << "Average" >> }

\* aggregate() unwrapping the sole value whatever the grouping, as count() does.
AggregateAlwaysOne ==
    /\ CanCall
    /\ \E args \in AggregateArgs :
           \E c \in { Compile([Q EXCEPT !.aggregate = args], heap) } :
               \E o \in Outcomes(c.stmt) :
                   /\ aggregate' = args
                   /\ Executed("aggregate", c, o,
                               IF ~o.ok THEN Raised("ExecutionError") ELSE Value(o.rows))
                   /\ UNCHANGED << criterion, columns, additional_columns, order_by, group_by,
                                   set_type, set_type_labels, set_token, set_token_labels, delete >>

Aggregate ==
    /\ CanCall
    /\ \E args \in AggregateArgs :
           \E c \in { Compile([Q EXCEPT !.aggregate = args], heap) } :
               \E o \in Outcomes(c.stmt) :
                   /\ aggregate' = args
                   /\ Executed("aggregate", c, o,
                               IF ~o.ok THEN Raised("ExecutionError")
                               ELSE IF group_by # <<>> THEN RowSet(o.rows)
                               ELSE Value(o.rows))
                   /\ UNCHANGED << criterion, columns, additional_columns, order_by, group_by,
                                   set_type, set_type_labels, set_token, set_token_labels, delete >>

\* d updated with the pairs of kwargs (d[k] = v).
DictUpdate(d, kwargs) ==
    { p \in d : \A n \in kwargs : n[1] # p[1] } \cup kwargs

\* The labels (*args) and properties (**kwargs) a caller passes to set_type()
\* and set_token(): a label alone, or a property alone.
MutationArgs ==
    { [args |-> << "sibilant" >>, kwargs |-> {}],
      [args |-> <<>>, kwargs |-> { << "stressed", "yes" >> }] }

SetType ==
    /\ CanCall
    /\ \E a \in MutationArgs :
           \E q \in { [Q EXCEPT !.set_type = DictUpdate(set_type, a.kwargs),
                                !.set_type_labels = set_type_labels \o a.args] } :
               \E c \in { Compile(q, heap) } :
                   \E o \in Outcomes(c.stmt) :
                       /\ set_type' = IF o.ok THEN {} ELSE q.set_type
                       /\ set_type_labels' = IF o.ok THEN <<>> ELSE q.set_type_labels
                       /\ Executed("set_type", c, o, IF o.ok THEN Nothing ELSE Raised("ExecutionError"))
                       /\ UNCHANGED << criterion, columns, additional_columns, order_by, group_by,
                                       aggregate, set_token, set_token_labels, delete >>

SetToken ==
    /\ CanCall
    /\ \E a \in MutationArgs :
           \E q \in { [Q EXCEPT !.set_token = DictUpdate(set_token, a.kwargs),
                                !.set_token_labels = set_token_labels \o a.args] } :
               \E c \in { Compile(q, heap) } :
                   \E o \in Outcomes(c.stmt) :
                       /\ set_token' = IF o.ok THEN {} ELSE q.set_token
                       /\ set_token_labels' = IF o.ok THEN <<>> ELSE q.set_token_labels
                       /\ Executed("set_token", c, o, IF o.ok THEN Nothing ELSE Raised("ExecutionError"))
                       /\ UNCHANGED << criterion, columns, additional_columns, order_by, group_by,
                                       aggregate, set_type, set_type_labels, delete >>

\* A delete() compiled by a write path of its own, which leaves the criteria out.
DeleteIgnoringCriteria ==
    /\ CanCall
    /\ \E c \in { Compile([Q EXCEPT !.delete = TRUE, !.criterion = <<>>], heap) } :
           \E o \in Outcomes(c.stmt) :
               /\ delete' = TRUE
               /\ Executed("delete", c, o, IF o.ok THEN Nothing ELSE Raised("ExecutionError"))
               /\ UNCHANGED << criterion, columns, additional_columns, order_by, group_by,
                               aggregate, set_type, set_type_labels, set_token, set_token_labels >>

Delete ==
    /\ CanCall
    /\ \E c \in { Compile([Q EXCEPT !.delete = TRUE], heap) } :
           \E o \in Outcomes(c.stmt) :
               /\ delete' = TRUE
               /\ Executed("delete", c, o, IF o.ok THEN Nothing ELSE Raised("ExecutionError"))
               /\ UNCHANGED << criterion, columns, additional_columns, order_by, group_by,
                               aggregate, set_type, set_type_labels, set_token, set_token_labels >>

\* ------------------------------------------------------------ specification
Next ==
    \/ ClearColumns
    \/ Filter
    \/ Columns
    \/ FilterLeftAligned
    \/ FilterRightAligned
    \/ FilterNotLeftAligned
    \/ FilterNotRightAligned
    \/ Cypher
    \/ GroupBy
    \/ OrderBy
    \/ Discourses
    \/ Times
    \/ Duration
    \/ All
    \/ ToCsv
    \/ Count
    \/ Aggregate
    \/ SetType
    \/ SetToken
    \/ Delete

Spec == Init /\ [][Next]_vars

\* ------------------------------------------------- a second GraphQuery
\* A second GraphQuery(corpus, to_find) built from the same annotation objects:
\* its own lists, as __init__ leaves them, and the criteria it was given.
Q2 ==
    [criterion |-> criterion2, columns |-> DefaultColumns,
     additional_columns |-> <<>>, order_by |-> <<>>,
     group_by |-> <<>>, aggregate |-> <<>>,
     set_type |-> {}, set_type_labels |-> <<>>,
     set_token |-> {}, set_token_labels |-> <<>>,
     delete |-> FALSE]

\* The criteria a caller passes to the second query's filter(): one over the
\* annotation the queries are looking for, and those the first query is given.
SecondFilterArgs ==
    { Comparison(Attribute(to_find, "label", ""), "v") } \cup FilterArgs

\* filter() on the second query.
SecondFilter ==
    /\ CanCall
    /\ \E arg \in SecondFilterArgs :
           criterion2' = Append(criterion2, arg)
    /\ instance' = "second"
    /\ ncalls' = ncalls + 1
    /\ UNCHANGED << heap, accumulator, stmt, prevStmt, compiles, lastOp, lastArgs, ret,
                    nexec, raised, ncompile >>

\* cypher() on the second query: it rewrites the labels of the annotation
\* objects its own criteria refer to.
SecondCypher ==
    /\ CanCall
    /\ \E c \in { Compile(Q2, heap) } :
           heap' = c.heap
    /\ instance' = "second"
    /\ ncalls' = ncalls + 1
    /\ UNCHANGED << accumulator, stmt, prevStmt, compiles, lastOp, lastArgs, ret,
                    nexec, raised, ncompile, criterion2 >>

NextTwo ==
    \/ Next
    \/ SecondFilter
    \/ SecondCypher

SpecTwo == Init /\ [][NextTwo]_vars

\* ------------------------------------------------------------------ claims
BuilderOps ==
    {"filter", "filter_left_aligned", "filter_right_aligned", "filter_not_left_aligned",
     "filter_not_right_aligned", "columns", "group_by", "order_by", "discourses", "times",
     "duration"}

MutationOps == {"set_type", "set_token", "delete"}

TerminalOps == {"all", "to_csv", "count", "aggregate"} \cup MutationOps

AlignmentOps ==
    {"filter_left_aligned", "filter_right_aligned", "filter_not_left_aligned",
     "filter_not_right_aligned"}

\* The criteria positions that assert a discourse value.
DiscourseCriteria ==
    { i \in 1..Len(criterion) : HasAttribute(criterion[i]) /\ criterion[i].label = "discourse" }

\* C1: two cypher()/cypher_params() calls in a row, with no other operation in
\* between, give the same statement text and the same parameter map.
C1_CompilationDeterministic == compiles = 2 => stmt = prevStmt

\* C1 witness: a second compilation in a row of a query holding a discourse
\* criterion, whose first compilation rewrote the label of to_find.
C1_Witness ==
    /\ compiles = 2
    /\ DiscourseCriteria # {}
    /\ heap[to_find].discourse_label # None

\* The distinct (type, discourse label, type subset, token subset) combinations
\* of the annotations the criteria and the columns and group-by fields refer to.
ReferencedLevels ==
    { LevelOf(heap, a) : a \in CriterionAnnotations(criterion) \cup ColumnAnnotations(Q) }

\* C2: the compiled statement has exactly one pattern node (one key of
\* annotation_levels()) for each distinct combination of type, discourse label
\* and subset labels that the criteria and columns refer to.
C2_OneNodePerLevel ==
    stmt # <<>> => Cardinality(stmt[1].text.nodes) = Cardinality(ReferencedLevels)

\* C3: a columns() call leaves the default columns alone, keeps the columns
\* added before in place and in order, and appends nothing when every argument
\* equals a column the query holds, a default one or one added before.
C3_ColumnsIdempotentOrdered ==
    [][ (lastOp' = "columns" /\ ncalls' = ncalls + 1) =>
          /\ columns' = columns
          /\ Len(additional_columns') >= Len(additional_columns)
          /\ SubSeq(additional_columns', 1, Len(additional_columns)) = additional_columns
          /\ (\A i \in 1..Len(lastArgs') :
                  InColumns(heap, lastArgs'[i], columns \o additional_columns))
             => additional_columns' = additional_columns ]_vars

\* C3 witness: columns() was called with a default column while another column
\* had been added before.
C3_Witness ==
    /\ lastOp = "columns"
    /\ Len(lastArgs) = 1
    /\ InColumns(heap, lastArgs[1], columns)
    /\ additional_columns # <<>>

\* C4 as stated: every listed builder operation, set_type, set_token and delete
\* included, returns the accumulator and makes no store execute call.
C4_AllListedOpsReturnSelf ==
    lastOp \in BuilderOps \cup MutationOps => ret = Self /\ nexec = 0

\* C4 amended: the builder operations other than set_type, set_token and delete
\* return the accumulator and compile and execute nothing; set_type, set_token
\* and delete make one store execute call and return nothing or raise.
C4_BuilderOpsReturnSelf ==
    /\ lastOp \in BuilderOps => ret = Self /\ nexec = 0 /\ ncompile = 0
    /\ lastOp \in MutationOps => ret.kind \in {"none", "ExecutionError"} /\ nexec = 1

\* C4 witness: discourses() was called at the end of a chain of calls.
C4_Witness == lastOp = "discourses" /\ ncalls > 1 /\ ret = Self

\* C5: once cypher() has run on a criteria list in which some criterion asserts
\* a discourse value, every annotation of every criterion carries that value as
\* its discourse label.
C5_DiscoursePropagated ==
    (stmt # <<>> /\ DiscourseCriteria # {}) =>
        \E i \in DiscourseCriteria :
            \A j \in 1..Len(criterion) :
                \A a \in Annotations(criterion[j]) :
                    heap[a].discourse_label = criterion[i].value

\* No mutation is pending in the accumulator.
NoMutationIntent ==
    /\ ~delete
    /\ set_type = {} /\ set_type_labels = <<>>
    /\ set_token = {} /\ set_token_labels = <<>>

\* C6: a count() that returns, on an accumulator with no mutation pending,
\* returns a single non-negative integer, also when group-by fields are held.
C6_CountReturnsInteger ==
    (lastOp = "count" /\ ret.kind # "ExecutionError" /\ NoMutationIntent) =>
        /\ ret.kind = "value"
        /\ ret.cell.tag = "int"
        /\ ret.cell.n >= 0

\* C7: an aggregate() that returns gives the sole value of the row set exactly
\* when the group-by list is empty, and the row set itself exactly when it is not.
C7_AggregateUnwrapsIffUngrouped ==
    (lastOp = "aggregate" /\ ret.kind # "ExecutionError") =>
        /\ group_by = <<>> => ret = Value(ret.rows)
        /\ group_by # <<>> => ret = RowSet(ret.rows)

\* C7 witness: aggregate() returned the row set of a grouped query.
C7_Witness == lastOp = "aggregate" /\ group_by # <<>> /\ ret.kind = "rowset"

\* The clause element variant each alignment filter appends.
AlignmentKindOf(op) ==
    CASE op = "filter_left_aligned" -> "left"
      [] op = "filter_right_aligned" -> "right"
      [] op = "filter_not_left_aligned" -> "notleft"
      [] op = "filter_not_right_aligned" -> "notright"

\* C8: every alignment filter call appends exactly one alignment criterion of
\* its own variant, between to_find and the given type, after the criteria held.
C8_AlignmentAppendsOne ==
    [][ (lastOp' \in AlignmentOps /\ ncalls' = ncalls + 1) =>
          \E t \in Anns :
              criterion' = Append(criterion,
                                  AlignmentClauseElement(AlignmentKindOf(lastOp'), to_find, t)) ]_vars

\* C8 witness: filter_left_aligned then filter_not_right_aligned on the same
\* pair of types left two separate criteria, in call order.
C8_Witness ==
    /\ lastOp = "filter_not_right_aligned"
    /\ Len(criterion) = 2
    /\ criterion[1] = LeftAlignedClauseElement(to_find, "wd")
    /\ criterion[2] = NotRightAlignedClauseElement(to_find, "wd")

\* An order-by field that is not among the projected columns.
InvalidCombination ==
    \E i \in 1..Len(order_by) :
        ~InColumns(heap, order_by[i][1], columns \o additional_columns)

\* C9: a terminal operation on an accumulator ordered by a field that was
\* never added as a column reports a BuildError, compiling and executing nothing.
C9_BuildErrorBeforeCompile ==
    (lastOp \in TerminalOps /\ InvalidCombination) =>
        ret.kind = "BuildError" /\ ncompile = 0 /\ nexec = 0

\* Two criteria assert different discourse values.
ConflictingDiscourse ==
    \E i, j \in DiscourseCriteria : criterion[i].value # criterion[j].value

\* C10: compiling a criteria list that asserts two different discourse values
\* fails with a CompileError, and no statement is executed.
C10_ConflictIsCompileError ==
    (lastOp \in TerminalOps \cup {"cypher"} /\ ConflictingDiscourse) =>
        ret.kind = "CompileError" /\ nexec = 0

\* C11: each terminal operation (all, to_csv, count, aggregate, set_type,
\* set_token, delete) makes exactly one execute call against the store, and when
\* the store raises, the caller gets that ExecutionError with no second call.
C11_OneExecutePerTerminal ==
    lastOp \in TerminalOps =>
        /\ nexec = 1
        /\ raised => ret = Raised("ExecutionError")

\* C11 witness: a set_type call during which the store raised; the error
\* reached the caller after a single execute call.
C11_Witness ==
    /\ lastOp = "set_type"
    /\ raised
    /\ ret.kind = "ExecutionError"
    /\ nexec = 1

\* C12: two GraphQuery instances on the same corpus are isolated: a call on one
\* of them leaves unchanged the statement, parameters and annotation levels the
\* other one compiles to.
C12_InstancesIsolated ==
    [][ /\ instance' = "first" => Compile(Q2, heap').stmt = Compile(Q2, heap).stmt
        /\ instance' = "second" => Compile(Q, heap').stmt = Compile(Q, heap).stmt ]_vars

\* C13: the statement set_type(), set_token() and delete() hand to the store is
\* compiled from the same criteria list and the same resolved annotation levels
\* as the statement all() compiles: same pattern nodes, same constraints, same
\* parameters.
C13_WritePathMatchesReadPath ==
    lastOp \in MutationOps =>
        \E c \in { Compile(Q, heap) } :
            /\ stmt[1].text.nodes = c.stmt.text.nodes
            /\ stmt[1].text.constraints = c.stmt.text.constraints
            /\ stmt[1].params = c.stmt.params

\* C13 witness: delete() ran on a query filtered by discourse and by another
\* criterion.
C13_Witness ==
    /\ lastOp = "delete"
    /\ ret = Nothing
    /\ Len(criterion) = 2
    /\ DiscourseCriteria = {1}

\* The column list the projection clause is built from.
ProjectedColumns == columns \o additional_columns

\* C14: after any sequence of clear_columns, columns, discourses, times and
\* duration calls, no attribute path occurs twice in the projected column list.
C14_ColumnsDeduplicated ==
    \A i, j \in 1..Len(ProjectedColumns) :
        i # j => ~AttributeEq(heap, ProjectedColumns[i], ProjectedColumns[j])

\* The annotations the order-by fields refer to.
OrderedAnnotations == { order_by[i][1].annotation : i \in 1..Len(order_by) }

\* Key k of annotation_levels() is a pattern node for annotation a: same type
\* and same subset labels (the discourse label is left aside, it is rewritten
\* by compilation).
Covers(k, a) ==
    /\ k.type = heap[a].type
    /\ k.subset_type_labels = heap[a].subset_type_labels
    /\ k.subset_token_labels = heap[a].subset_token_labels

\* C15: the keys of annotation_levels() cover the annotation level of every
\* criterion, projected column, group-by field and order-by field, also of a
\* level only an order-by field refers to.
C15_LevelsCoverEveryReference ==
    \A a \in CriterionAnnotations(criterion) \cup ColumnAnnotations(Q) \cup OrderedAnnotations :
        \E k \in DOMAIN annotation_levels(Q, heap) : Covers(k, a)

\* C16: order_by(field, descending) appends the pair (field, descending) to the
\* order list and changes no pair already there; no other operation changes
\* the list.  So n calls leave n pairs in call order, each with the flag of
\* its own call.
C16_OrderByAppendsPair ==
    [][ IF lastOp' = "order_by" /\ ncalls' = ncalls + 1
        THEN order_by' = Append(order_by, << lastArgs'[1], lastArgs'[2] >>)
        ELSE order_by' = order_by ]_vars

\* C16 witness: two order_by calls with different directions, a third call
\* after them; both pairs are held in call order with their own flags.
C16_Witness ==
    /\ ncalls = MaxCalls
    /\ Len(order_by) = 2
    /\ order_by[1] = << Attribute("wd", "label", "word"), TRUE >>
    /\ order_by[2] = << Attribute(to_find, "begin", "begin"), FALSE >>

\* C17: once set_type(), set_token() or delete() has returned, the accumulator
\* holds no pending mutation: both property maps and both label lists are
\* empty and the delete flag is false.
C17_MutationIntentCleared ==
    (lastOp \in MutationOps /\ ~raised) => NoMutationIntent

\* The lists a read operation compiles from.
ReadState == << criterion, columns, additional_columns, order_by, group_by, aggregate >>

\* C18: all(), count() and aggregate(), when they return, leave the criteria,
\* columns, ordering, grouping and aggregate-spec lists as they were before
\* the call.
C18_ReadsLeaveAccumulator ==
    [][ (lastOp' \in {"all", "count", "aggregate"} /\ ncalls' = ncalls + 1 /\ ~raised')
            => ReadState' = ReadState ]_vars

\* The aggregate specs and the mutation intent of the accumulator.
IntentState == << aggregate, set_type, set_type_labels, set_token, set_token_labels, delete >>

\* C19: when the store raises during count(), aggregate(), set_type(),
\* set_token() or delete(), the aggregate specs, the pending properties and
\* labels and the delete flag are after the failed call what they were before.
C19_FailedCallRestoresState ==
    [][ (lastOp' \in {"count", "aggregate"} \cup MutationOps /\ ncalls' = ncalls + 1 /\ raised')
            => IntentState' = IntentState ]_vars
====
